---- MODULE Spec2Model ----
(***************************************************************************)
(* Model of jsontableschema_sql/mappers.py: the name mangling functions,   *)
(* the descriptor <-> columns/constraints translators and the geometry     *)
(* type loaders.                                                           *)
(*                                                                         *)
(* Python strings that the code concatenates, strips or joins are modelled *)
(* as sequences of one-character strings (<<"p","_">> is 'p_'). Logical    *)
(* type names and class names, which the code only compares, are TLA+      *)
(* strings. Python's None, where it can stand in place of a string, is the *)
(* one-element sequence None, which is no string since "<None>" is no      *)
(* character.                                                              *)
(***************************************************************************)
EXTENDS Integers, Sequences, FiniteSets, TLC

VARIABLES
    geometry_type,   \* mappers.geometry_type, the module-level slot
    ischema_names,   \* the dialects' ischema_names entries the loaders write
    nloads,          \* loader calls so far: each call defines a new class
    registered,      \* history: the class the most recent loader call defined
    table,           \* the last descriptor_to_columns_and_constraints call
    described,       \* the last columns_and_constraints_to_descriptor call
    decoded,         \* the last SDE result_processor call
    names,           \* the last bucket_to_tablename / tablename_to_bucket calls
    request          \* the arguments the caller translates a descriptor with

vars == <<geometry_type, ischema_names, nloads, registered, table, described,
          decoded, names, request>>

-----------------------------------------------------------------------------
(* Bounds of the model. *)

MaxFields == 2

MaxFks == 2

MaxIdx == 2

MaxLoads == 2

MaxPrefixLen == 2

MaxNameLen == 3

-----------------------------------------------------------------------------
(* Python strings and the str methods the code uses. *)

None == <<"<None>">>

StartsWith(s, p) ==
    /\ Len(p) <= Len(s)
    /\ SubSeq(s, 1, Len(p)) = p

\* str.find, 1-based; 0 when old does not occur. The empty string occurs at 1.
Find(s, old) ==
    LET hits == {i \in 1..(Len(s) + 1) :
                    /\ i + Len(old) - 1 <= Len(s)
                    /\ SubSeq(s, i, i + Len(old) - 1) = old}
    IN IF hits = {} THEN 0 ELSE CHOOSE i \in hits : \A j \in hits : i <= j

\* s.replace(old, new, 1)
ReplaceFirst(s, old, new) ==
    LET i == Find(s, old)
    IN IF i = 0 THEN s
       ELSE SubSeq(s, 1, i - 1) \o new \o SubSeq(s, i + Len(old), Len(s))

RECURSIVE ReplaceAll(_, _, _)
\* s.replace(old, new), old non-empty
ReplaceAll(s, old, new) ==
    LET i == Find(s, old)
    IN IF i = 0 \/ old = <<>> THEN s
       ELSE SubSeq(s, 1, i - 1) \o new
            \o ReplaceAll(SubSeq(s, i + Len(old), Len(s)), old, new)

\* sep.join([a, b])
Join(sep, a, b) == a \o sep \o b

RECURSIVE Split(_, _)
\* s.split(sep) for a one-character sep
Split(s, sep) ==
    LET i == Find(s, <<sep>>)
    IN IF i = 0 THEN <<s>>
       ELSE <<SubSeq(s, 1, i - 1)>> \o Split(SubSeq(s, i + 1, Len(s)), sep)

Digits == <<"0", "1", "2", "3", "4", "5", "6", "7", "8", "9">>

RECURSIVE Str(_)
\* str(i) for i >= 0
Str(i) ==
    IF i < 10 THEN <<Digits[i + 1]>>
    ELSE Str(i \div 10) \o <<Digits[(i % 10) + 1]>>

RECURSIVE ZeroPad(_, _)
\* '%0<w>d' of the digits s
ZeroPad(s, w) == IF Len(s) >= w THEN s ELSE ZeroPad(<<"0">> \o s, w)

\* '_ix%03d' % i
IndexSuffix(i) == <<"_", "i", "x">> \o ZeroPad(Str(i), 3)

-----------------------------------------------------------------------------
(* bucket_to_tablename / tablename_to_bucket *)

bucket_to_tablename(prefix, bucket) == prefix \o bucket

tablename_to_bucket_replace_all(prefix, tablename) ==
    IF StartsWith(tablename, prefix)
    THEN ReplaceAll(tablename, prefix, <<>>)
    ELSE None

tablename_to_bucket(prefix, tablename) ==
    IF StartsWith(tablename, prefix)
    THEN ReplaceFirst(tablename, prefix, <<>>)
    ELSE None

-----------------------------------------------------------------------------
(* Column types. A type is a class: cls names it, id tells apart the       *)
(* classes that successive loader calls define (0 for the library's own),  *)
(* env is the closure of load_sde_support the SDE class was defined in.    *)

NoEnv == [geometry_support |-> "None", from_srid |-> "None", to_srid |-> "None"]

Builtin(cls) == [cls |-> cls, id |-> 0, env |-> NoEnv]

Text == Builtin("Text")

VARCHAR == Builtin("VARCHAR")

NVARCHAR == Builtin("NVARCHAR")

CHAR == Builtin("CHAR")

UUID == Builtin("UUID")

Float == Builtin("Float")

Integer == Builtin("Integer")

Boolean == Builtin("Boolean")

JSON == Builtin("JSON")

JSONB == Builtin("JSONB")

ARRAY == Builtin("ARRAY")

Date == Builtin("Date")

Time == Builtin("Time")

DateTime == Builtin("DateTime")

\* isinstance(column.type, key): the column's type is an instance of the class
\* the column was made with; among the classes here only JSONB subclasses
\* another one (JSON).
IsInstance(type, key) ==
    \/ type = key
    \/ type = JSONB /\ key = JSON

-----------------------------------------------------------------------------
(* Descriptors.                                                            *)
(*   field:      [name, type, constraints], constraints one of "absent",   *)
(*               "required" ({'required': True}), "optional"               *)
(*               ({'required': False})                                     *)
(*   primaryKey: NoKey (absent), Name(s) (a string) or Names(l) (a list)   *)
(*   foreignKeys: a sequence (absent is read as []) of                     *)
(*               [fields, reference |-> [resource, fields]]                *)

NoKey == [t |-> "none", v |-> <<>>]

Name(s) == [t |-> "str", v |-> s]

Names(l) == [t |-> "list", v |-> l]

\* isinstance(x, six.string_types) and then [x]
AsList(x) == IF x.t = "str" THEN <<x.v>> ELSE x.v

\* a one-element list popped to its element
Collapse(l) == IF Len(l) = 1 THEN Name(l[1]) ELSE Names(l)

self == <<"s", "e", "l", "f">>

\* field.get('constraints', {}).get('required', False)
Required(field) == field.constraints = "required"

-----------------------------------------------------------------------------
(* descriptor_to_columns_and_constraints *)

Column(name, type, nullable, autoincrement) ==
    [name |-> name, type |-> type, nullable |-> nullable,
     autoincrement |-> autoincrement]

PrimaryKeyConstraint(columns) ==
    [kind |-> "PrimaryKeyConstraint", columns |-> columns, refs |-> <<>>]

ForeignKeyConstraint(columns, refs) ==
    [kind |-> "ForeignKeyConstraint", columns |-> columns, refs |-> refs]

Index(name, columns) == [name |-> name, columns |-> columns]

NoError == [type |-> "", name |-> <<>>]

\* raise: the call returns nothing
Raised(kind, type, name) ==
    [kind |-> kind, columns |-> <<>>, constraints |-> <<>>, indexes |-> <<>>,
     err |-> [type |-> type, name |-> name]]

Returned(columns, constraints, indexes) ==
    [kind |-> "ok", columns |-> columns, constraints |-> constraints,
     indexes |-> indexes, err |-> NoError]

mapping_import_time ==
    ("string" :> Text) @@ ("number" :> Float) @@ ("integer" :> Integer)
    @@ ("boolean" :> Boolean) @@ ("object" :> JSONB) @@ ("array" :> JSONB)
    @@ ("date" :> Date) @@ ("time" :> Time) @@ ("datetime" :> DateTime)
    @@ ("geojson" :> JSONB)

\* the mapping dict, built on every call from the slot's current value
mapping ==
    ("string" :> Text) @@ ("number" :> Float) @@ ("integer" :> Integer)
    @@ ("boolean" :> Boolean) @@ ("object" :> JSONB) @@ ("array" :> JSONB)
    @@ ("date" :> Date) @@ ("time" :> Time) @@ ("datetime" :> DateTime)
    @@ ("geojson" :> geometry_type)

\* if autoincrement is not None: columns.append(Column(autoincrement, ...))
AutoincrementColumns(autoincrement) ==
    IF autoincrement # None
    THEN <<Column(autoincrement, Integer, FALSE, TRUE)>>
    ELSE <<>>

FieldColumn(field) ==
    Column(field.name, mapping[field.type], ~Required(field), FALSE)

\* the fields whose type lookup raises KeyError
Unsupported(fields) == {i \in DOMAIN fields : fields[i].type \notin DOMAIN mapping}

LastUnsupported(fields) ==
    CHOOSE i \in Unsupported(fields) : \A j \in Unsupported(fields) : j <= i

\* the field loop stops at the first field whose type is not mapped
FirstUnsupported(fields) ==
    CHOOSE i \in Unsupported(fields) : \A j \in Unsupported(fields) : i <= j

\* column_mapping[field['name']] = column: a later field of the same name wins
ColumnMapping(fields) ==
    [n \in {fields[i].name : i \in DOMAIN fields} |->
        FieldColumn(fields[CHOOSE i \in DOMAIN fields :
                              /\ fields[i].name = n
                              /\ \A j \in DOMAIN fields :
                                    fields[j].name = n => j <= i])]

\* the positions <<group, field>> of index_fields whose column_mapping lookup
\* raises KeyError
MissingIndexKeys(fields, index_fields) ==
    {p \in {<<i, j>> : i \in DOMAIN index_fields, j \in 1..MaxFields + 1} :
        /\ p[2] \in DOMAIN index_fields[p[1]]
        /\ index_fields[p[1]][p[2]] \notin DOMAIN ColumnMapping(fields)}

FirstMissingIndexKey(fields, index_fields) ==
    LET miss == MissingIndexKeys(fields, index_fields)
        p == CHOOSE p \in miss : \A q \in miss :
                \/ p[1] < q[1]
                \/ p[1] = q[1] /\ p[2] <= q[2]
    IN index_fields[p[1]][p[2]]

IndexesOneBased(tablename, fields, index_fields) ==
    [i \in DOMAIN index_fields |->
        Index(tablename \o IndexSuffix(i),
              [j \in DOMAIN index_fields[i] |->
                  ColumnMapping(fields)[index_fields[i][j]]])]

\* for i, index_definition in enumerate(index_fields)
Indexes(tablename, fields, index_fields) ==
    [i \in DOMAIN index_fields |->
        Index(tablename \o IndexSuffix(i - 1),
              [j \in DOMAIN index_fields[i] |->
                  ColumnMapping(fields)[index_fields[i][j]]])]

\* pk after the "Primary key" block's normalisation: NoKey (None) or a list
PrimaryKey(primaryKey, autoincrement) ==
    LET pk == IF primaryKey.t # "none" THEN Names(AsList(primaryKey)) ELSE NoKey
    IN IF autoincrement # None
       THEN IF pk.t # "none" THEN Names(<<autoincrement>> \o pk.v)
            ELSE Names(<<autoincrement>>)
       ELSE pk

PrimaryKeyConstraints(primaryKey, autoincrement) ==
    LET pk == PrimaryKey(primaryKey, autoincrement)
    IN IF pk.t # "none" THEN <<PrimaryKeyConstraint(pk.v)>> ELSE <<>>

RECURSIVE ForeignKeyConstraints(_, _, _)
\* the "Foreign keys" loop over fks, entered with the variable tablename as
\* the previous iterations left it
ForeignKeyConstraints(prefix, tablename, fks) ==
    IF fks = <<>> THEN <<>>
    ELSE LET fk == Head(fks)
             fields == AsList(fk.fields)
             resource == fk.reference.resource
             tablename1 == IF resource # self
                           THEN bucket_to_tablename(prefix, resource)
                           ELSE tablename
             foreign_fields == AsList(fk.reference.fields)
             composed == [i \in DOMAIN foreign_fields |->
                             Join(<<".">>, tablename1, foreign_fields[i])]
         IN <<ForeignKeyConstraint(fields, composed)>>
            \o ForeignKeyConstraints(prefix, tablename1, Tail(fks))

descriptor_to_columns_and_constraints(prefix, bucket, descriptor, index_fields, autoincrement) ==
    LET tablename == bucket_to_tablename(prefix, bucket)
        fields == descriptor.fields
        columns == AutoincrementColumns(autoincrement)
                   \o [i \in DOMAIN fields |-> FieldColumn(fields[i])]
    IN IF Unsupported(fields) # {}
       THEN LET field == fields[FirstUnsupported(fields)]
            IN Raised("TypeError", field.type, field.name)
       ELSE IF MissingIndexKeys(fields, index_fields) # {}
       THEN Raised("KeyError", "", FirstMissingIndexKey(fields, index_fields))
       ELSE Returned(columns,
                     PrimaryKeyConstraints(descriptor.primaryKey, autoincrement)
                     \o ForeignKeyConstraints(prefix, tablename,
                                              descriptor.foreignKeys),
                     Indexes(tablename, fields, index_fields))

-----------------------------------------------------------------------------
(* columns_and_constraints_to_descriptor *)

\* the mapping dict as <<class, logical type>> pairs in insertion order, with
\* mapping[geometry_type] = 'geojson' added when the slot is not JSONB
reverse_mapping ==
    << <<Text, "string">>, <<VARCHAR, "string">>, <<NVARCHAR, "string">>,
       <<CHAR, "string">>, <<UUID, "string">>, <<Float, "number">>,
       <<Integer, "integer">>, <<Boolean, "boolean">>, <<JSON, "object">>,
       <<JSONB, "object">>, <<ARRAY, "array">>, <<Date, "date">>,
       <<Time, "time">>, <<DateTime, "datetime">> >>
    \o (IF geometry_type # JSONB THEN << <<geometry_type, "geojson">> >> ELSE <<>>)

\* the loop over mapping.items() has no break: the last matching key decides
\* ("None" when no key matches)
FieldType(column) ==
    LET hits == {i \in DOMAIN reverse_mapping :
                    IsInstance(column.type, reverse_mapping[i][1])}
    IN IF hits = {} THEN "None"
       ELSE reverse_mapping[CHOOSE i \in hits : \A j \in hits : j <= i][2]

\* the columns the "Fields" loop does not skip
KeptColumns(columns, autoincrement_column) ==
    SelectSeq(columns, LAMBDA column : column.name # autoincrement_column)

Field(column) ==
    [name |-> column.name, type |-> FieldType(column),
     constraints |-> IF ~column.nullable THEN "required" ELSE "absent"]

RECURSIVE PrimaryKeyNamesKeepAuto(_, _)
PrimaryKeyNamesKeepAuto(constraints, autoincrement_column) ==
    IF constraints = <<>> THEN <<>>
    ELSE (IF Head(constraints).kind = "PrimaryKeyConstraint"
          THEN Head(constraints).columns
          ELSE <<>>)
         \o PrimaryKeyNamesKeepAuto(Tail(constraints), autoincrement_column)

RECURSIVE PrimaryKeyNames(_, _)
\* the "Primary key" loops: the names of every primary-key constraint's
\* columns, the autoincrement column's skipped
PrimaryKeyNames(constraints, autoincrement_column) ==
    IF constraints = <<>> THEN <<>>
    ELSE (IF Head(constraints).kind = "PrimaryKeyConstraint"
          THEN SelectSeq(Head(constraints).columns,
                         LAMBDA n : n # autoincrement_column)
          ELSE <<>>)
         \o PrimaryKeyNames(Tail(constraints), autoincrement_column)

\* element.column.table.name and element.column.name of the foreign key
\* 'table.column': the last two dot-separated tokens
RefTable(ref) == LET t == Split(ref, ".") IN t[Len(t) - 1]

RefColumn(ref) == LET t == Split(ref, ".") IN t[Len(t)]

RECURSIVE Resource(_, _, _, _)
\* resource after the loop over the elements refs, entered with resource
Resource(prefix, tablename, refs, resource) ==
    IF refs = <<>> THEN resource
    ELSE Resource(prefix, tablename, Tail(refs),
                  IF RefTable(Head(refs)) # tablename
                  THEN tablename_to_bucket(prefix, RefTable(Head(refs)))
                  ELSE resource)

ForeignKey(prefix, tablename, constraint) ==
    LET fields == constraint.columns
        foreign_fields == [i \in DOMAIN constraint.refs |->
                              RefColumn(constraint.refs[i])]
        single == Len(fields) = 1 /\ Len(foreign_fields) = 1
    IN [fields |-> IF single THEN Name(fields[1]) ELSE Names(fields),
        reference |->
            [resource |-> Resource(prefix, tablename, constraint.refs, self),
             fields |-> IF single THEN Name(foreign_fields[1])
                        ELSE Names(foreign_fields)]]

ForeignKeys(prefix, tablename, constraints) ==
    LET fkcs == SelectSeq(constraints,
                          LAMBDA c : c.kind = "ForeignKeyConstraint")
    IN [i \in DOMAIN fkcs |-> ForeignKey(prefix, tablename, fkcs[i])]

NoDescriptor == [fields |-> <<>>, primaryKey |-> NoKey, foreignKeys |-> <<>>]

columns_and_constraints_to_descriptor(prefix, tablename, columns, constraints, autoincrement_column) ==
    LET kept == KeptColumns(columns, autoincrement_column)
        bad == {i \in DOMAIN kept : FieldType(kept[i]) = "None"}
        pk == PrimaryKeyNames(constraints, autoincrement_column)
    IN IF bad # {}
       THEN LET column == kept[CHOOSE i \in bad : \A j \in bad : i <= j]
            IN [kind |-> "TypeError", descriptor |-> NoDescriptor,
                err |-> [type |-> column.type.cls, name |-> column.name]]
       ELSE [kind |-> "ok",
             descriptor |->
                [fields |-> [i \in DOMAIN kept |-> Field(kept[i])],
                 primaryKey |-> IF Len(pk) > 0 THEN Collapse(pk) ELSE NoKey,
                 foreignKeys |-> ForeignKeys(prefix, tablename, constraints)],
             err |-> NoError]

-----------------------------------------------------------------------------
(* load_sde_support: the closures of the SDE class. env is the call's      *)
(* arguments [geometry_support, from_srid, to_srid]; a spatial reference   *)
(* identifier is "None" or its digits.                                     *)

\* Python truth of an identifier: None and 0 are false
Truthy(srid) == srid \notin {"None", "0"}

\* template.format(arg): every '{}' of the template becomes str(arg). A
\* template is the sequence of its literal pieces and '{}' placeholders.
Format(template, arg) ==
    [i \in DOMAIN template |-> IF template[i] = "{}" THEN arg ELSE template[i]]

\* to_geojson(shp): the crs name is 'EPSG:'.format(srid)
to_geojson(env, shp) ==
    LET srid == IF Truthy(env.from_srid) /\ ~Truthy(env.to_srid)
                THEN env.from_srid
                ELSE IF Truthy(env.to_srid) THEN env.to_srid ELSE "4326"
    IN [kind |-> "geojson", geometry |-> shp.wkt, reprojected |-> shp.reprojected,
        crs |-> Format(<<"EPSG:">>, srid)]

ProcessError(what) ==
    [kind |-> what, geometry |-> "", reprojected |-> FALSE, crs |-> <<>>]

ProcessNone == ProcessError("None")

\* shapely.wkt.loads: the empty text is no well-known text
shp_loads(wkt) == [wkt |-> wkt, reprojected |-> FALSE]

\* transform(wkt): transformer is bound only if from_srid and to_srid
transform(env, wkt) ==
    IF wkt = "" THEN ProcessError("WKTReadingError")
    ELSE IF ~(Truthy(env.from_srid) /\ Truthy(env.to_srid))
    THEN ProcessError("NameError")
    ELSE to_geojson(env, [shp_loads(wkt) EXCEPT !.reprojected = TRUE])

\* SDE.result_processor's process(value). A value is None, a str or a LOB
\* with a text to read: [kind |-> "None" | "str" | "lob", text].
process(env, value) ==
    IF \/ value.kind = "None"
       \/ value.kind = "str" /\ value.text \in {"", "POINT EMPTY"}
    THEN ProcessNone
    ELSE IF env.geometry_support = "sde" /\ value.kind = "str"
    THEN ProcessError("AttributeError")
    ELSE IF env.geometry_support # "sde" /\ value.kind = "lob"
    THEN ProcessError("TypeError")
    ELSE IF env.from_srid # "None" /\ env.to_srid # "None"
    THEN transform(env, value.text)
    ELSE IF value.text = "" THEN ProcessError("WKTReadingError")
    ELSE to_geojson(env, shp_loads(value.text))

-----------------------------------------------------------------------------
(* The inputs the calls are made with. *)

Letters == <<"a", "b", "c", "d">>

NameAt(i) == <<Letters[i]>>

a == NameAt(1)

b == NameAt(2)

id == <<"i", "d">>

\* a name no field has
zz == <<"z">>

t == <<"t">>

u == <<"u">>

p_ == <<"p", "_">>

x == <<"x">>

y == <<"y">>

LogicalTypes ==
    {"string", "number", "integer", "boolean", "object", "array", "date",
     "time", "datetime", "geojson"}

SeqsUpTo(S, n) == UNION {[1..k -> S] : k \in 0..n}

\* field lists of every type, the field at position i named NameAt(i)
TypedFields ==
    UNION {{[i \in 1..k |-> [name |-> NameAt(i), type |-> f[i],
                            constraints |-> "absent"]] :
              f \in [1..k -> LogicalTypes \cup {"unsupported-type", "any"}]} :
           k \in 1..MaxFields}

\* one field list with a required, an optional and an unconstrained field
KeyedFields ==
    [i \in 1..MaxFields |->
        [name |-> NameAt(i),
         type |-> IF i % 3 = 1 THEN "integer"
                  ELSE IF i % 3 = 2 THEN "string" ELSE "number",
         constraints |-> IF i % 3 = 1 THEN "required"
                         ELSE IF i % 3 = 2 THEN "optional" ELSE "absent"]]

Fk(fields, resource, foreign_fields) ==
    [fields |-> fields,
     reference |-> [resource |-> resource, fields |-> foreign_fields]]

FkSelf == Fk(Name(b), self, Name(a))

FkSelf2 == Fk(Names(<<a, b>>), self, Names(<<b, a>>))

FkOther == Fk(Name(a), u, Name(x))

FkOther2 == Fk(Names(<<a, b>>), u, Names(<<x, y>>))

FkMissing == Fk(Name(zz), u, Name(x))

Descriptor(fields, primaryKey, foreignKeys) ==
    [fields |-> fields, primaryKey |-> primaryKey, foreignKeys |-> foreignKeys]

Call(prefix, bucket, descriptor, index_fields, autoincrement) ==
    [prefix |-> prefix, bucket |-> bucket, descriptor |-> descriptor,
     index_fields |-> index_fields, autoincrement |-> autoincrement]

\* every field type, under three settings of the keys, indexes and autoincrement
TypeCalls ==
    {Call(p_, t, Descriptor(f, NoKey, <<>>), <<>>, None) : f \in TypedFields}
    \cup {Call(p_, t, Descriptor(f, Name(a), <<FkSelf>>), << <<a>> >>, id) :
            f \in TypedFields}
    \cup {Call(<<>>, t, Descriptor(f, Names(<<a, zz>>), <<FkOther, FkMissing>>),
               << <<zz>> >>, a) : f \in TypedFields}

\* every primary key, foreign key list, autoincrement name and prefix
KeyCalls ==
    {Call(p, t, Descriptor(KeyedFields, pk, fks), <<>>, auto) :
        p \in {<<>>, p_},
        pk \in {NoKey, Name(a), Names(<<a>>), Names(<<a, b>>), Names(<<b, a>>),
                Name(zz)},
        fks \in SeqsUpTo({FkSelf, FkSelf2, FkOther, FkOther2, FkMissing}, MaxFks),
        auto \in {None, id, a}}

\* every list of index groups
IndexCalls ==
    {Call(p, t, Descriptor(KeyedFields, NoKey, fks), idx, auto) :
        p \in {<<>>, p_},
        fks \in {<<>>, <<FkOther>>, <<FkOther, FkSelf>>},
        idx \in SeqsUpTo({<<a>>, <<a, b>>, <<b>>, <<zz>>}, MaxIdx),
        auto \in {None, id}}

\* geojson fields, for the calls made around the loaders
GeoCalls ==
    {Call(p_, t, Descriptor(f, NoKey, <<>>), <<>>, None) :
        f \in {<<[name |-> a, type |-> "geojson", constraints |-> "absent"]>>,
               <<[name |-> a, type |-> "geojson", constraints |-> "required"],
                 [name |-> b, type |-> "object", constraints |-> "absent"]>>,
               <<[name |-> a, type |-> "string", constraints |-> "absent"]>>}}

SdeArgs ==
    [geometry_support : {"sde", "sde-char"}, from_srid : {"None", "0", "2272"},
     to_srid : {"None", "4326"}]

Values ==
    {[kind |-> "None", text |-> ""]}
    \cup [kind : {"str", "lob"},
          text : {"", "POINT EMPTY", "POINT (1 2)",
                  "POLYGON ((0 0, 1 0, 1 1, 0 0))"}]

Alphabet == {"a", "b"}

Prefixes == SeqsUpTo(Alphabet, MaxPrefixLen)

Resources == SeqsUpTo(Alphabet, MaxNameLen) \ {<<>>}

-----------------------------------------------------------------------------
(* State and actions. *)

NoType == Builtin("None")

NoTable ==
    [called |-> FALSE, args |-> Call(<<>>, <<>>, Descriptor(<<>>, NoKey, <<>>), <<>>, None),
     geometry_type |-> JSONB, result |-> Returned(<<>>, <<>>, <<>>)]

NotDescribed ==
    [called |-> FALSE, autoincrement_column |-> None, geometry_type |-> JSONB,
     result |-> [kind |-> "ok", descriptor |-> NoDescriptor, err |-> NoError]]

NotDecoded == [called |-> FALSE, type |-> NoType, value |-> [kind |-> "None", text |-> ""], result |-> ProcessNone]

NoNames ==
    [called |-> FALSE, prefix |-> <<>>, bucket |-> <<>>, tablename |-> <<>>,
     stripped |-> FALSE, back |-> None]

NoCall == Call(<<>>, t, Descriptor(<<>>, NoKey, <<>>), <<>>, None)

\* the module as imported, before any call
Start ==
    /\ geometry_type = JSONB
    /\ ischema_names = [geometry |-> NoType, ST_GEOMETRY |-> NoType]
    /\ nloads = 0
    /\ registered = JSONB
    /\ table = NoTable
    /\ described = NotDescribed
    /\ decoded = NotDecoded
    /\ names = NoNames

Init ==
    /\ Start
    /\ request \in TypeCalls \cup KeyCalls \cup IndexCalls

InitGeo ==
    /\ Start
    /\ request \in GeoCalls

InitOther ==
    /\ Start
    /\ request = NoCall

\* load_postgis_support()
LoadPostgis ==
    /\ nloads < MaxLoads
    /\ LET GeoJSON == [cls |-> "GeoJSON", id |-> nloads + 1, env |-> NoEnv]
       IN /\ ischema_names' = [ischema_names EXCEPT !.geometry = GeoJSON]
          /\ geometry_type' = GeoJSON
          /\ registered' = GeoJSON
    /\ nloads' = nloads + 1
    /\ UNCHANGED <<table, described, decoded, names, request>>

\* load_sde_support(geometry_support, from_srid, to_srid)
LoadSde(env) ==
    /\ nloads < MaxLoads
    /\ LET SDE == [cls |-> "SDE", id |-> nloads + 1, env |-> env]
       IN /\ ischema_names' = [ischema_names EXCEPT !.ST_GEOMETRY = SDE]
          /\ geometry_type' = SDE
          /\ registered' = SDE
    /\ nloads' = nloads + 1
    /\ UNCHANGED <<table, described, decoded, names, request>>

\* descriptor_to_columns_and_constraints(...) with the caller's arguments, the
\* table it makes replacing the one made before
D2C ==
    /\ table' = [called |-> TRUE, args |-> request, geometry_type |-> geometry_type,
                 result |-> descriptor_to_columns_and_constraints(
                                request.prefix, request.bucket,
                                request.descriptor, request.index_fields,
                                request.autoincrement)]
    /\ described' = NotDescribed
    /\ UNCHANGED <<geometry_type, ischema_names, nloads, registered, decoded, names, request>>

\* columns_and_constraints_to_descriptor(...) on the table made last, under
\* the table's prefix and name
C2D(autoincrement_column) ==
    /\ table.called
    /\ table.result.kind = "ok"
    /\ described' =
          [called |-> TRUE, autoincrement_column |-> autoincrement_column,
           geometry_type |-> geometry_type,
           result |-> columns_and_constraints_to_descriptor(
                          table.args.prefix,
                          bucket_to_tablename(table.args.prefix, table.args.bucket),
                          table.result.columns, table.result.constraints,
                          autoincrement_column)]
    /\ UNCHANGED <<geometry_type, ischema_names, nloads, registered, table, decoded, names, request>>

\* the active SDE type's result processor on a value read from the database
Process(value) ==
    /\ geometry_type.cls = "SDE"
    /\ decoded' = [called |-> TRUE, type |-> geometry_type, value |-> value,
                   result |-> process(geometry_type.env, value)]
    /\ UNCHANGED <<geometry_type, ischema_names, nloads, registered, table, described, names, request>>

\* bucket_to_tablename(prefix, bucket)
BucketToTablename(prefix, bucket) ==
    /\ names' = [called |-> TRUE, prefix |-> prefix, bucket |-> bucket,
                 tablename |-> bucket_to_tablename(prefix, bucket),
                 stripped |-> FALSE, back |-> None]
    /\ UNCHANGED <<geometry_type, ischema_names, nloads, registered, table, described, decoded, request>>

\* tablename_to_bucket(prefix, tablename) on the name made last
TablenameToBucket ==
    /\ names.called
    /\ ~names.stripped
    /\ names' = [names EXCEPT !.stripped = TRUE,
                              !.back = tablename_to_bucket(names.prefix,
                                                           names.tablename)]
    /\ UNCHANGED <<geometry_type, ischema_names, nloads, registered, table, described, decoded, request>>

Next ==
    \/ D2C
    \/ \E auto \in {request.autoincrement, None} : C2D(auto)

\* the translators with the geometry slot as the module sets it
Spec == Init /\ [][Next]_vars

NextGeo ==
    \/ LoadPostgis
    \/ \E env \in {e \in SdeArgs : e.from_srid = "None" /\ e.to_srid = "None"} :
          LoadSde(env)
    \/ D2C
    \/ C2D(None)

\* the translators interleaved with the loaders
SpecGeo == InitGeo /\ [][NextGeo]_vars

NextSde ==
    \/ \E env \in SdeArgs : LoadSde(env)
    \/ \E value \in Values : Process(value)

\* the SDE type's result processor
SpecSde == InitOther /\ [][NextSde]_vars

NextNames ==
    \/ \E prefix \in Prefixes, bucket \in Resources :
          BucketToTablename(prefix, bucket)
    \/ TablenameToBucket

\* the name mangling functions
SpecNames == InitOther /\ [][NextNames]_vars

-----------------------------------------------------------------------------
(* Properties. *)

D == table.args.descriptor

Translated == table.called /\ table.result.kind = "ok"

TableName == table.args.prefix \o table.args.bucket

FieldNames(descriptor) ==
    {descriptor.fields[i].name : i \in DOMAIN descriptor.fields}

Range(seq) == {seq[i] : i \in DOMAIN seq}

KeyNames(key) == IF key.t = "none" THEN {} ELSE Range(AsList(key))

\* the names the primary key and the foreign keys' fields use
KeyFieldNames(descriptor) ==
    KeyNames(descriptor.primaryKey)
    \cup UNION {KeyNames(descriptor.foreignKeys[i].fields) :
                  i \in DOMAIN descriptor.foreignKeys}

ValidDescriptor(descriptor) ==
    /\ \A i \in DOMAIN descriptor.fields :
          descriptor.fields[i].type \in LogicalTypes
    /\ \A i, j \in DOMAIN descriptor.fields :
          descriptor.fields[i].name = descriptor.fields[j].name => i = j
    /\ KeyFieldNames(descriptor) \subseteq FieldNames(descriptor)

\* equal as keys: both absent, or the same names in the same order, a bare
\* string standing for the one-element list
SameKey(k1, k2) ==
    /\ (k1.t = "none") = (k2.t = "none")
    /\ k1.t # "none" => AsList(k1) = AsList(k2)

SameDescriptor(d1, d2) ==
    /\ Len(d1.fields) = Len(d2.fields)
    /\ \A i \in DOMAIN d1.fields :
          /\ d1.fields[i].name = d2.fields[i].name
          /\ d1.fields[i].type = d2.fields[i].type
          /\ Required(d1.fields[i]) = Required(d2.fields[i])
    /\ SameKey(d1.primaryKey, d2.primaryKey)
    /\ Len(d1.foreignKeys) = Len(d2.foreignKeys)
    /\ \A i \in DOMAIN d1.foreignKeys :
          /\ SameKey(d1.foreignKeys[i].fields, d2.foreignKeys[i].fields)
          /\ d1.foreignKeys[i].reference.resource
                = d2.foreignKeys[i].reference.resource
          /\ SameKey(d1.foreignKeys[i].reference.fields,
                     d2.foreignKeys[i].reference.fields)

\* C1: with no index groups and no autoincrement column, translating a valid
\* descriptor to columns and constraints and back returns a descriptor with
\* the same fields (names, types, required flags, order), the same primary
\* key and the same foreign keys, up to collapsing singleton key lists.
C1_RoundTrip ==
    (/\ table.called
     /\ described.called
     /\ ValidDescriptor(D)
     /\ table.args.index_fields = <<>>
     /\ table.args.autoincrement = None
     /\ described.autoincrement_column = None)
    => /\ table.result.kind = "ok"
       /\ described.result.kind = "ok"
       /\ SameDescriptor(D, described.result.descriptor)

\* the call's arguments let the field and index loops run through: every
\* field type is mapped and every index group names declared fields
Translatable ==
    /\ table.called
    /\ \A i \in DOMAIN D.fields : D.fields[i].type \in LogicalTypes
    /\ \A i \in DOMAIN table.args.index_fields :
          Range(table.args.index_fields[i]) \subseteq FieldNames(D)

ForeignKeyConstraintsOf(result) ==
    SelectSeq(result.constraints, LAMBDA c : c.kind = "ForeignKeyConstraint")

PrimaryKeyConstraintsOf(result) ==
    SelectSeq(result.constraints, LAMBDA c : c.kind = "PrimaryKeyConstraint")

\* C2: every foreign key whose reference.resource is 'self', wherever it
\* stands in foreignKeys, gets a constraint whose qualified references are
\* '<prefix + resource of the call>.<field>' for each referenced field in order.
C2_SelfReference ==
    Translated =>
        \A i \in DOMAIN D.foreignKeys :
            D.foreignKeys[i].reference.resource = self =>
                LET foreign == AsList(D.foreignKeys[i].reference.fields)
                IN ForeignKeyConstraintsOf(table.result)[i].refs
                      = [j \in DOMAIN foreign |->
                            TableName \o <<".">> \o foreign[j]]

\* C3: with an autoincrement column name given, the first column has that
\* name, is integer-typed and non-nullable, and there is one primary-key
\* constraint: that name followed by the declared primary key (alone when none
\* is declared). Translating back with the same name yields a descriptor whose
\* fields and primaryKey do not contain it, without primaryKey when none was
\* declared.
C3_AutoincrementTransparency ==
    LET auto == table.args.autoincrement
        pks == PrimaryKeyConstraintsOf(table.result)
    IN (Translatable /\ auto # None) =>
          /\ table.result.kind = "ok"
          /\ table.result.columns[1].name = auto
          /\ table.result.columns[1].type = Integer
          /\ ~table.result.columns[1].nullable
          /\ Len(pks) = 1
          /\ pks[1].columns
                = <<auto>> \o (IF D.primaryKey.t = "none" THEN <<>>
                               ELSE AsList(D.primaryKey))
          /\ (described.called /\ described.autoincrement_column = auto) =>
                /\ described.result.kind = "ok"
                /\ auto \notin FieldNames(described.result.descriptor)
                /\ auto \notin KeyNames(described.result.descriptor.primaryKey)
                /\ D.primaryKey.t = "none"
                      => described.result.descriptor.primaryKey.t = "none"

C3_Witness ==
    /\ Translated
    /\ table.args.autoincrement = id
    /\ D.primaryKey.t = "list"
    /\ Len(D.primaryKey.v) = 2
    /\ described.called
    /\ described.autoincrement_column = id
    /\ described.result.descriptor.primaryKey.t = "list"

\* C4: when some field's type is not one of the ten mapped logical types, the
\* call fails with the type error naming the type and the name of the first
\* such field in field order and returns no columns, constraints or indexes,
\* whatever the primary key, foreign keys, index groups and autoincrement are.
C4_UnsupportedTypeRejection ==
    LET bad == {i \in DOMAIN D.fields : D.fields[i].type \notin LogicalTypes}
    IN (table.called /\ bad # {}) =>
          \E k \in bad :
              /\ \A i \in bad : k <= i
              /\ table.result.kind = "TypeError"
              /\ table.result.err.type = D.fields[k].type
              /\ table.result.err.name = D.fields[k].name
              /\ table.result.columns = <<>>
              /\ table.result.constraints = <<>>
              /\ table.result.indexes = <<>>

C4_Witness ==
    /\ table.called
    /\ Len(D.fields) >= 2
    /\ D.fields[1].type = "any"
    /\ D.fields[2].type = "unsupported-type"
    /\ table.result.err.type = "any"
    /\ D.primaryKey.t # "none"
    /\ table.args.index_fields # <<>>
    /\ table.args.autoincrement # None
    /\ table.result.kind = "TypeError"

ThreeDigits ==
    << <<"0", "0", "0">>, <<"0", "0", "1">>, <<"0", "0", "2">>,
       <<"0", "0", "3">>, <<"0", "0", "4">> >>

\* C5: a call whose index groups name declared fields returns one index per
\* index group, in group order; the index at zero-based position i is named '<prefix + resource>_ix' and i
\* zero-padded to three digits and covers the group's columns in order; the
\* names of one call are pairwise distinct, also when the descriptor declares
\* foreign keys to other resources.
C5_IndexNaming ==
    LET groups == table.args.index_fields
        indexes == table.result.indexes
    IN Translatable =>
          /\ table.result.kind = "ok"
          /\ Len(indexes) = Len(groups)
          /\ \A i \in DOMAIN groups :
                /\ indexes[i].name
                      = table.args.prefix \o table.args.bucket
                        \o <<"_", "i", "x">> \o ThreeDigits[i]
                /\ [j \in DOMAIN indexes[i].columns |->
                       indexes[i].columns[j].name] = groups[i]
          /\ \A i, j \in DOMAIN indexes :
                indexes[i].name = indexes[j].name => i = j

C5_Witness ==
    /\ Translated
    /\ Len(table.args.index_fields) = 2
    /\ Len(table.args.index_fields[1]) = 2
    /\ table.args.prefix = p_
    /\ Len(D.foreignKeys) = 2
    /\ D.foreignKeys[1].reference.resource = u

\* C6: a geometry text the SDE result processor decodes to GeoJSON carries the
\* crs name 'EPSG:<to_srid>' when a destination identifier is configured,
\* 'EPSG:<from_srid>' when only a source identifier is, 'EPSG:4326' when
\* neither is.
C6_CrsName ==
    LET env == decoded.type.env
    IN (/\ decoded.called
        /\ decoded.value.text \notin {"", "POINT EMPTY"}
        /\ decoded.result.kind = "geojson") =>
          decoded.result.crs
             = <<"EPSG:", IF Truthy(env.to_srid) THEN env.to_srid
                          ELSE IF Truthy(env.from_srid) THEN env.from_srid
                          ELSE "4326">>

\* C7: tablename_to_bucket(p, bucket_to_tablename(p, r)) = r for every prefix
\* p, the empty one and those that occur again in r included.
C7_PrefixRoundTrip == names.stripped => names.back = names.bucket

C7_Witness ==
    /\ names.stripped
    /\ names.prefix # <<>>
    /\ Find(names.bucket, names.prefix) # 0
    /\ names.back = names.bucket

\* C8: for a descriptor with unique field names and any autoincrement argument,
\* the returned columns have pairwise distinct names, and the column with the
\* autoincrement name is integer-typed, non-nullable and at position 0.
C8_ColumnModelInvariant ==
    LET columns == table.result.columns
    IN (/\ Translated
        /\ \A i, j \in DOMAIN D.fields :
              D.fields[i].name = D.fields[j].name => i = j)
       => /\ \A i, j \in DOMAIN columns :
                columns[i].name = columns[j].name => i = j
          /\ \A i \in DOMAIN columns :
                columns[i].name = table.args.autoincrement =>
                   /\ i = 1
                   /\ columns[i].type = Integer
                   /\ ~columns[i].nullable

\* C9: when the primaryKey or some foreign key's fields name a field that is
\* not among the descriptor's fields, the call fails with a lookup failure and
\* returns nothing; it never returns a primary-key or foreign-key constraint
\* over a column name absent from the returned columns.
C9_MissingKeyField ==
    /\ (/\ table.called
        /\ \A i \in DOMAIN D.fields : D.fields[i].type \in LogicalTypes
        /\ ~(KeyFieldNames(D) \subseteq FieldNames(D)))
       => /\ table.result.kind = "KeyError"
          /\ table.result.columns = <<>>
          /\ table.result.constraints = <<>>
          /\ table.result.indexes = <<>>
    /\ Translated =>
          \A i \in DOMAIN table.result.constraints :
              Range(table.result.constraints[i].columns)
                 \subseteq {table.result.columns[j].name :
                              j \in DOMAIN table.result.columns}

\* C10: the slot holds the type the most recent loader call registered (JSONB
\* if none ran) and no translation call changes it; a translation to columns
\* gives every 'geojson' field the type active at the time of the call; a
\* translation back maps a column of the then active type to 'geojson' exactly
\* when that type is not JSONB.
C10_ActiveGeometrySlot ==
    LET columns == table.result.columns
        off == IF table.args.autoincrement # None THEN 1 ELSE 0
    IN /\ geometry_type = registered
       /\ nloads = 0 => geometry_type = JSONB
       /\ Translatable =>
             /\ table.result.kind = "ok"
             /\ Len(columns) = Len(D.fields) + off
             /\ \A i \in DOMAIN D.fields :
                   D.fields[i].type = "geojson"
                      => columns[i + off].type = table.geometry_type
       /\ (/\ Translated
           /\ described.called
           /\ \A i \in DOMAIN columns :
                 columns[i].name # described.autoincrement_column) =>
             \A i \in DOMAIN columns :
                 columns[i].type = described.geometry_type =>
                    /\ described.result.kind = "ok"
                    /\ (described.result.descriptor.fields[i].type = "geojson")
                          = (described.geometry_type # JSONB)

C10_Witness ==
    /\ nloads = 2
    /\ geometry_type.cls = "SDE"
    /\ ischema_names.geometry.cls = "GeoJSON"
    /\ Translated
    /\ described.called
    /\ table.geometry_type = geometry_type
    /\ described.geometry_type = geometry_type
    /\ D.fields[1].type = "geojson"
    /\ described.result.descriptor.fields[1].type = "geojson"

====
